---------------------------- MODULE Spec2Model ----------------------------
(***************************************************************************)
(* Model of src/game.py (Spotify Dash): difficulty subsampling, the level  *)
(* builder, the envelope sampler and the run_game frame loop.              *)
(*                                                                         *)
(* Units.  Times are integer milliseconds (pygame.time.get_ticks() returns *)
(* integer ms; the code divides by 1000.0).  Vertical positions and        *)
(* velocities are in 1/100 pixel (gravity 0.38 -> 38, jump -11 -> -1100).  *)
(* Horizontal obstacle positions are in 1/1000 pixel, so that              *)
(* (collision_time - now) * 330 + 250 is exact on millisecond times.       *)
(* Envelope values are integers 0..MaxEnvVal standing for 0.0..1.0 and an  *)
(* interpolated sample is the exact fraction num/den.                      *)
(***************************************************************************)
EXTENDS Integers, Sequences, FiniteSets, TLC

VARIABLES
    pc,             \* position of the program: see PcValues
    all_beats,      \* analyze_beats: beat timestamps (ms)
    dur,            \* analyze_beats: track duration (ms)
    tempo,          \* analyze_beats: tempo (BPM)
    start_delay,    \* main: pre-roll handed to run_game (ms)
    choice_key,     \* select_difficulty: the difficulty key pressed (0: none yet)
    jump_beats,     \* select_difficulty's result
    spikes,         \* run_game: remaining spikes, in level order
    platforms,      \* run_game: remaining platforms, in level order
    env_times,      \* EnvelopeCurve sample times
    env_vals,       \* EnvelopeCurve sample values
    env_t,          \* query time handed to sample_envelope
    amp,            \* sample_envelope's result
    clock,          \* pygame.time.get_ticks(), the render clock (ms)
    music,          \* pygame.mixer.music: state of the audio device
    play_calls,     \* number of pygame.mixer.music.play() calls so far
    level_start_ms, \* run_game locals, by their names in the source
    audio_started,
    music_start_ms,
    now_ms,
    elapsed_audio,
    song_time,
    py_prev,
    py,
    vy,
    standing,
    game_over,
    jump_req,
    jumps_this_run,
    last_percent,
    result,         \* what run_game returned: <<outcome, percent, jumps>>
    inputs,         \* number of user inputs and slow frames so far
    seen,           \* history: what the latest frame observed at line 1019
    after_pause,    \* history: the frame a resumed pause began in, the time in the menu
    req_hist,       \* history: song_time and player state when jump_req was recorded
    fired,          \* history: the request consumed by the latest frame's jump
    trace,          \* history: the intermediate values of the latest frame update
    death           \* history: song_time, py and percent of the frame of death

\* Python's None, and a value that is not None.
None == <<>>
Some(v) == <<v>>
Val(opt) == opt[1]

(***************************************************************************)
(* Python helpers                                                          *)
(***************************************************************************)
Max(a, b) == IF a >= b THEN a ELSE b
Min(a, b) == IF a <= b THEN a ELSE b

\* int(x) on x = n / d (d > 0): truncation toward zero.
TruncDiv(n, d) == IF n >= 0 THEN n \div d ELSE -((-n) \div d)

StrideFromKth(seq, k) == [j \in 1..(Len(seq) \div k) |-> seq[j * k]]

\* seq[::k]: the elements at 0-based indices 0, k, 2k, ...
Stride(seq, k) ==
    [j \in 1..((Len(seq) + k - 1) \div k) |-> seq[(j - 1) * k + 1]]

\* "x or y" on lists: an empty list is falsy.
OrList(x, y) == IF x = <<>> THEN y ELSE x

(***************************************************************************)
(* select_difficulty: keys 1, 2, 3                                         *)
(***************************************************************************)
DifficultyKeys == {1, 2, 3}

ChoiceBeats(beats, key) ==
    IF key = 1 THEN OrList(Stride(beats, 3), beats)
    ELSE IF key = 2 THEN OrList(Stride(beats, 2), beats)
    ELSE beats

(***************************************************************************)
(* build_level                                                             *)
(***************************************************************************)
JUMP_BUFFER_TIME == 500
JUMP_LEAD_TIME == 0

Spike(collision_time, height_blocks) ==
    [collision_time |-> collision_time, height_blocks |-> height_blocks]

Platform(collision_time) == [collision_time |-> collision_time]

\* One iteration of the for loop: i is the 0-based index of beat b.
BuildStepSpikeFirst(lv, i, b) ==
    LET collision_t == b + JUMP_LEAD_TIME IN
    IF i % 8 = 4
      THEN [lv EXCEPT !.spikes = Append(@, Spike(collision_t, 1))]
    ELSE IF i % 6 \in {2, 5}
      THEN [lv EXCEPT !.platforms = Append(@, Platform(collision_t))]
    ELSE [lv EXCEPT !.spikes = Append(@, Spike(collision_t, 0))]

BuildStep(lv, i, b) ==
    LET collision_t == b + JUMP_LEAD_TIME IN
    IF i % 6 \in {2, 5}
      THEN [lv EXCEPT !.platforms = Append(@, Platform(collision_t))]
    ELSE IF i % 8 = 4
      THEN [lv EXCEPT !.spikes = Append(@, Spike(collision_t, 1))]
    ELSE [lv EXCEPT !.spikes = Append(@, Spike(collision_t, 0))]

RECURSIVE BuildLoop(_, _, _)
BuildLoop(lv, beats, i) ==
    IF i >= Len(beats) THEN lv
    ELSE BuildLoop(BuildStep(lv, i, beats[i + 1]), beats, i + 1)

build_level(beats) == BuildLoop([spikes |-> <<>>, platforms |-> <<>>], beats, 0)

(***************************************************************************)
(* sample_envelope                                                         *)
(***************************************************************************)
IndexError == [kind |-> "IndexError"]
Value(n, d) == [kind |-> "value", num |-> n, den |-> d]

\* lst[k] for a Python index k (0-based, negative counts from the end).
InRange(lst, k) == -Len(lst) <= k /\ k < Len(lst)
Item(lst, k) == IF k >= 0 THEN lst[k + 1] ELSE lst[Len(lst) + k + 1]

\* bisect.bisect_left(a, x): binary search for the leftmost insertion point.
RECURSIVE BisectLoop(_, _, _, _)
BisectLoop(a, x, lo, hi) ==
    IF lo >= hi THEN lo
    ELSE LET mid == (lo + hi) \div 2 IN
         IF Item(a, mid) < x THEN BisectLoop(a, x, mid + 1, hi)
         ELSE BisectLoop(a, x, lo, mid)

bisect_left(a, x) == BisectLoop(a, x, 0, Len(a))

\* v0 + alpha * (v1 - v0) with alpha = (t - t0) / (t1 - t0), as a fraction.
InterpolateFromEnd(t0, t1, v0, v1, t) ==
    Value(v0 * (t1 - t0) + (t1 - t) * (v1 - v0), t1 - t0)

Interpolate(t0, t1, v0, v1, t) ==
    Value(v0 * (t1 - t0) + (t - t0) * (v1 - v0), t1 - t0)

\* return lst[k], raising IndexError when k is out of range
Return(lst, k) == IF InRange(lst, k) THEN Value(Item(lst, k), 1) ELSE IndexError

sample_envelope(times, vals, t) ==
    IF times = <<>> THEN Value(0, 1)
    ELSE IF t <= Item(times, 0) THEN Return(vals, 0)
    ELSE IF t >= Item(times, -1) THEN Return(vals, -1)
    ELSE LET i == bisect_left(times, t) IN
         IF i <= 0 THEN Return(vals, 0)
         ELSE IF i >= Len(times) THEN Return(vals, -1)
         ELSE LET t0 == Item(times, i - 1)
                  t1 == Item(times, i)
              IN  IF ~InRange(vals, i - 1) \/ ~InRange(vals, i) THEN IndexError
                  ELSE LET v0 == Item(vals, i - 1)
                           v1 == Item(vals, i)
                       IN  IF t1 <= t0 THEN Value(v1, 1)
                           ELSE Interpolate(t0, t1, v0, v1, t)


(***************************************************************************)
(* Bounds of the model                                                     *)
(***************************************************************************)
MaxTicks == 2700        \* the render clock is followed up to this value
MaxInputs == 2          \* jump presses, clicks, pauses and slow frames in a run
MaxBeats == 21          \* longest BeatTimeline of the level-builder runs
MaxEnvLen == 3          \* longest EnvelopeCurve array
MaxEnvTime == 4         \* largest EnvelopeCurve sample time
MaxEnvVal == 2          \* the envelope value standing for 1.0

\* Durations a frame can take (clock.tick(120) waits at least 1000/120 ms;
\* a loaded machine is slower): most frames take the shortest one, a longer
\* one counts as an input.  Times spent in the pause menu.  Render-clock
\* times of the frames in which the user presses a key or a button or which
\* take longer: every 160 ms during the pre-roll, every 320 ms after it.
FrameDurations == {20, 40}
PauseMsSet == {100, 640}
InputTimes ==
    {160 * k : k \in 0..4} \cup {320 * k : k \in 0..(MaxTicks \div 320)}

IsSlow(w) == \E v \in FrameDurations : v < w

(***************************************************************************)
(* main: the analyzed track and the pre-roll                               *)
(***************************************************************************)
Tracks ==
    { [beats |-> <<150, 400, 650, 900, 1150>>, dur |-> 1400, tempo |-> 150,
       env_times |-> <<0, 700, 1400>>, env_vals |-> <<0, 2, 1>>],
      \* a track in which the beat tracker found no beat
      [beats |-> <<>>, dur |-> 1400, tempo |-> 0,
       env_times |-> <<0, 700, 1400>>, env_vals |-> <<0, 0, 0>>] }

\* beat_duration = 0.5 if tempo <= 0 else 60.0 / tempo; start_delay = 2 * it
StartDelay(bpm) == IF bpm <= 0 THEN 2 * 500 ELSE (2 * 60000) \div bpm

(***************************************************************************)
(* run_game: constants and geometry                                        *)
(***************************************************************************)
H == 720                        \* scr.get_size(): the screen height (px)
ground_y == H - 120
px == 250
py_start == (H - 160) * 100
gravity == 38
jump == -1100
speed == 330
player_h == 50

Rect(x, top, width, height) ==
    [left |-> TruncDiv(x, 1000), top |-> top, width |-> width, height |-> height]

Right(r) == r.left + r.width
Bottom(r) == r.top + r.height

colliderect(a, b) ==
    /\ a.left < Right(b)
    /\ a.top < Bottom(b)
    /\ Right(a) > b.left
    /\ Bottom(a) > b.top

\* Spike.x / Platform.x, in 1/1000 px
ObstacleX(ob, now) == (ob.collision_time - now) * speed + 250 * 1000

\* the rectangle draw_spike returns
SpikeRect(x, height_blocks) ==
    IF height_blocks <= 0
      THEN Rect(x, ground_y - 50, 45, 50)
      ELSE Rect(x, (ground_y - height_blocks * 60) - 50, 45, 50)

get_platform_rect(x) == Rect(x, ground_y - 60, 120, 60)

PlayerRect(y) == [left |-> px, top |-> TruncDiv(y, 100), width |-> 50, height |-> player_h]

(***************************************************************************)
(* run_game: the clock                                                     *)
(***************************************************************************)
\* if (not audio_started) and game_elapsed >= start_delay
ShouldStartAudioLate(started, game_elapsed, delay) ==
    (~started) /\ game_elapsed > delay

ShouldStartAudio(started, game_elapsed, delay) ==
    (~started) /\ game_elapsed >= delay

\* song_time = game_elapsed - start_delay
SongTime(game_elapsed, delay) == game_elapsed - delay

LogicTime(st) == Max(st, 0)

\* if audio_started and (not get_busy()) and not game_over: return "song_end"
SongEndIgnoringGameOver(started, busy, over) == started /\ ~busy

SongEnd(started, busy, over) == started /\ ~busy /\ ~over

\* pygame.mixer.music.get_busy()
get_busy(m) == m = "playing"

\* (logic_time - jump_req) <= JUMP_BUFFER_TIME
WithinBufferStrict(logic_time, req) == logic_time - req < JUMP_BUFFER_TIME

WithinBuffer(logic_time, req) == logic_time - req <= JUMP_BUFFER_TIME

\* percent = int(clamp(env_t / dur, 0, 1) * 100), 0 when dur <= 0
PercentUnclamped(t, d) == IF d > 0 THEN (t * 100) \div d ELSE 0

Percent(t, d) ==
    IF d > 0 THEN (Max(0, Min(d, Max(t, 0))) * 100) \div d ELSE 0

(***************************************************************************)
(* run_game: the steps of one frame update                                 *)
(***************************************************************************)
\* if not game_over: vy += gravity; py += vy
IntegrateAlways(over, y, v) == [py |-> y + (v + gravity), vy |-> v + gravity]

Integrate(over, y, v) ==
    IF ~over THEN [py |-> y + (v + gravity), vy |-> v + gravity]
             ELSE [py |-> y, vy |-> v]

\* if x > -140 (platforms), if x > -80 (spikes): the obstacle is kept
KeptUntilOrigin(x, margin) == x > 0

Kept(x, margin) == x > (-margin) * 1000

\* player_bottom_prev <= rect.top <= player_bottom_now, and the two
\* horizontal tests on player_rect_for_check
LandsOnStrictlyAbove(bottom_prev, bottom_now, check, r) ==
    /\ bottom_prev < r.top * 100
    /\ r.top * 100 <= bottom_now
    /\ Right(check) > r.left
    /\ check.left < Right(r)

LandsOn(bottom_prev, bottom_now, check, r) ==
    /\ bottom_prev <= r.top * 100
    /\ r.top * 100 <= bottom_now
    /\ Right(check) > r.left
    /\ check.left < Right(r)

\* if py >= effective_ground - player_h
AtFloorOfFeet(y, effective_ground) == y >= effective_ground * 100

AtFloor(y, effective_ground) == y >= (effective_ground - player_h) * 100

\* if (logic_time - jump_req) <= JUMP_BUFFER_TIME: if standing: the jump
JumpFiresInAir(inWindow, grounded) == inWindow

JumpFires(inWindow, grounded) == inWindow /\ grounded

\* if player.colliderect(hit_rect): game_over = True
SpikeKillsInColumn(player, hit_rect) ==
    player.left < Right(hit_rect) /\ Right(player) > hit_rect.left

SpikeKills(player, hit_rect) == colliderect(player, hit_rect)

\* if player.colliderect(rect): if player.bottom <= rect.top + 2: pass
\* else: game_over = True
PlatformKills(player, r) ==
    colliderect(player, r) /\ ~(Bottom(player) <= r.top + 2)

(***************************************************************************)
(* State                                                                   *)
(***************************************************************************)
trackVars == <<all_beats, dur, tempo, start_delay, env_times, env_vals>>
selVars == <<choice_key, jump_beats>>
levelVars == <<spikes, platforms>>
clockVars == <<level_start_ms, audio_started, music_start_ms, now_ms,
               elapsed_audio, song_time, py_prev>>
playerVars == <<py, vy, standing, game_over, jumps_this_run, last_percent>>
histVars == <<seen, after_pause, req_hist, fired, trace, death>>

vars == <<pc, all_beats, dur, tempo, start_delay, choice_key, jump_beats, spikes,
          platforms,
          env_times, env_vals, env_t, amp, clock, music, play_calls,
          level_start_ms, audio_started, music_start_ms, now_ms, elapsed_audio,
          song_time, py_prev, py, vy, standing, game_over, jump_req,
          jumps_this_run, last_percent, result, inputs, seen, after_pause,
          req_hist, fired, trace, death>>

PcValues == {"main", "select", "run_game", "loop", "events", "paused",
             "returned", "raised", "picker", "exit", "envelope", "sampled"}

\* The values the model gives run_game's locals while no run_game call holds
\* them (before the call, and after it returned and its frame is gone).
localVars == <<spikes, platforms, env_t, amp, level_start_ms, audio_started,
               music_start_ms, now_ms, elapsed_audio, song_time, py_prev, py,
               vy, standing, game_over, jump_req, jumps_this_run, last_percent,
               inputs, after_pause, req_hist, fired, trace, death>>

NoLocals ==
    /\ spikes = <<>>
    /\ platforms = <<>>
    /\ amp = None
    /\ level_start_ms = 0
    /\ audio_started = FALSE
    /\ music_start_ms = None
    /\ now_ms = 0
    /\ elapsed_audio = 0
    /\ song_time = 0
    /\ py_prev = 0
    /\ py = 0
    /\ vy = 0
    /\ standing = FALSE
    /\ game_over = FALSE
    /\ jump_req = None
    /\ jumps_this_run = 0
    /\ last_percent = 0
    /\ inputs = 0
    /\ after_pause = None
    /\ req_hist = None
    /\ fired = None
    /\ trace = None
    /\ death = None

DiscardLocals ==
    /\ spikes' = <<>>
    /\ platforms' = <<>>
    /\ env_t' = 0
    /\ amp' = None
    /\ level_start_ms' = 0
    /\ audio_started' = FALSE
    /\ music_start_ms' = None
    /\ now_ms' = 0
    /\ elapsed_audio' = 0
    /\ song_time' = 0
    /\ py_prev' = 0
    /\ py' = 0
    /\ vy' = 0
    /\ standing' = FALSE
    /\ game_over' = FALSE
    /\ jump_req' = None
    /\ jumps_this_run' = 0
    /\ last_percent' = 0
    /\ inputs' = 0
    /\ after_pause' = None
    /\ req_hist' = None
    /\ fired' = None
    /\ trace' = None
    /\ death' = None

NoRun ==
    /\ choice_key = 0
    /\ jump_beats = <<>>
    /\ NoLocals
    /\ clock = 0
    /\ music = "idle"
    /\ play_calls = 0
    /\ result = None
    /\ seen = None

\* main, after analyze_beats returned one of the tracks
Init ==
    /\ pc = "main"
    /\ \E tr \in Tracks :
          /\ all_beats = tr.beats
          /\ dur = tr.dur
          /\ tempo = tr.tempo
          /\ env_times = tr.env_times
          /\ env_vals = tr.env_vals
    /\ start_delay = 0
    /\ NoRun
    /\ env_t = 0

(***************************************************************************)
(* main and select_difficulty                                              *)
(***************************************************************************)
\* main: "if not all_beats: continue", then the pre-roll from the tempo
MainAnalyzed ==
    /\ pc = "main"
    /\ IF all_beats = <<>>
         THEN pc' = "picker" /\ UNCHANGED start_delay
         ELSE pc' = "select" /\ start_delay' = StartDelay(tempo)
    /\ UNCHANGED <<all_beats, dur, tempo, env_times, env_vals, selVars,
                   localVars, clock, music, play_calls, result, seen>>

\* select_difficulty: key 1, 2 or 3 chooses the beats; main then calls run_game
SelectDifficulty(key) ==
    /\ pc = "select"
    /\ choice_key' = key
    /\ jump_beats' = ChoiceBeats(all_beats, key)
    /\ pc' = "run_game"
    /\ UNCHANGED <<trackVars, localVars, clock, music, play_calls, result, seen>>

\* select_difficulty: ESC returns None and main goes back to the song picker
SelectEscape ==
    /\ pc = "select"
    /\ pc' = "picker"
    /\ UNCHANGED <<trackVars, selVars, localVars, clock, music, play_calls,
                   result, seen>>

(***************************************************************************)
(* run_game                                                                *)
(***************************************************************************)
\* run_game up to the while loop: the level, the track, the start reference
RunGameStart ==
    /\ pc = "run_game"
    /\ LET lv == build_level(jump_beats) IN
          /\ spikes' = lv.spikes
          /\ platforms' = lv.platforms
    /\ music' = "idle"
    /\ level_start_ms' = clock
    /\ audio_started' = FALSE
    /\ music_start_ms' = None
    /\ py' = py_start
    /\ vy' = 0
    /\ game_over' = FALSE
    /\ jump_req' = None
    /\ jumps_this_run' = 0
    /\ last_percent' = 0
    /\ pc' = "loop"
    /\ UNCHANGED <<trackVars, selVars, env_t, amp, clock, play_calls, now_ms,
                   elapsed_audio, song_time, py_prev, standing, result, inputs,
                   histVars>>

\* pygame.mixer.music.load(path) (line 979) or pygame.mixer.music.play()
\* (line 1005) raises pygame.error: the device is unavailable or the file
\* cannot be loaded.  Neither run_game nor main has a handler around these
\* calls, so the exception leaves run_game and main without a return value.
AudioRaises ==
    /\ \/ pc = "run_game"
       \/ /\ pc = "loop"
          /\ ShouldStartAudio(audio_started, clock - level_start_ms, start_delay)
    /\ pc' = "raised"
    /\ music' = "failed"
    /\ DiscardLocals
    /\ UNCHANGED <<trackVars, selVars, clock, play_calls, result, seen>>

\* return outcome, percent, jumps_this_run: run_game's locals are gone
ReturnFrom(outcome, percent) ==
    /\ pc' = "returned"
    /\ result' = Some([outcome |-> outcome, percent |-> percent,
                       jumps |-> jumps_this_run])
    /\ DiscardLocals

\* Top of the while loop, lines 999-1020.  The frame reads the clock, then
\* clock.tick(120) lets w ms pass before the later get_ticks() calls.  ended:
\* the audio device has played the track to its end since the last frame.
FrameBegin(w, ended) ==
    /\ pc = "loop"
    /\ clock + w <= MaxTicks
    /\ IsSlow(w) => (inputs < MaxInputs /\ clock \in InputTimes)
    /\ ended => music = "playing"
    /\ clock' = clock + w
    /\ LET now == clock
           game_elapsed == now - level_start_ms
           start == ShouldStartAudio(audio_started, game_elapsed, start_delay)
           device == IF ended THEN "ended" ELSE music
           started == audio_started \/ start
           reference == IF start THEN Some(clock') ELSE music_start_ms
       IN  /\ music' = IF start THEN "playing" ELSE device
           /\ play_calls' = IF start THEN play_calls + 1 ELSE play_calls
           /\ seen' = Some([started |-> started, busy |-> get_busy(music'),
                            over |-> game_over, jumps |-> jumps_this_run,
                            game_elapsed |-> game_elapsed])
           /\ IF SongEnd(started, get_busy(music'), game_over)
                THEN ReturnFrom("song_end", 100)
                ELSE /\ pc' = "events"
                     /\ now_ms' = now
                     /\ audio_started' = started
                     /\ music_start_ms' = reference
                     /\ elapsed_audio' = IF started THEN clock' - Val(reference)
                                                    ELSE 0
                     /\ song_time' = SongTime(game_elapsed, start_delay)
                     /\ py_prev' = py
                     /\ inputs' = IF IsSlow(w) THEN inputs + 1 ELSE inputs
                     /\ after_pause' =
                          IF after_pause # None /\ ~Val(after_pause).first
                            THEN Some([Val(after_pause) EXCEPT !.first = TRUE])
                            ELSE None
                     /\ trace' = None
                     /\ UNCHANGED <<levelVars, env_t, amp, level_start_ms, py,
                                    vy, standing, game_over, jump_req,
                                    jumps_this_run, last_percent, result,
                                    req_hist, fired, death>>
    /\ UNCHANGED <<trackVars, selVars>>

\* The rest of the frame after the event loop, lines 1059-1198.
Physics ==
    LET logic_time == LogicTime(song_time)
        \* lines 1059-1061
        moved == Integrate(game_over, py, vy)
        vy1 == moved.vy
        py1 == moved.py
        \* lines 1063-1071
        new_platforms ==
            SelectSeq(platforms, LAMBDA pf : Kept(ObstacleX(pf, song_time), 140))
        rect(i) == get_platform_rect(ObstacleX(new_platforms[i], song_time))
        \* lines 1073-1088
        player_bottom_prev == py_prev + player_h * 100
        player_bottom_now == py1 + player_h * 100
        check == PlayerRect(py1)
        Lands(i) == LandsOn(player_bottom_prev, player_bottom_now, check, rect(i))
        landing == vy1 >= 0 /\ \E i \in 1..Len(new_platforms) : Lands(i)
        first == CHOOSE i \in 1..Len(new_platforms) :
                    Lands(i) /\ \A j \in 1..(i - 1) : ~Lands(j)
        effective_ground == IF landing THEN rect(first).top ELSE ground_y
        py2 == IF landing THEN (rect(first).top - player_h) * 100 ELSE py1
        vy2 == IF landing THEN 0 ELSE vy1
        \* lines 1090-1093
        floor == AtFloor(py2, effective_ground)
        py3 == IF floor THEN (effective_ground - player_h) * 100 ELSE py2
        vy3 == IF floor THEN 0 ELSE vy2
        standing3 == landing \/ floor
        \* lines 1095-1103
        pending == jump_req # None /\ ~game_over
        inWindow == pending /\ WithinBuffer(logic_time, Val(jump_req))
        jumps == JumpFires(inWindow, standing3)
        py4 == IF jumps THEN (effective_ground - player_h) * 100 ELSE py3
        vy4 == IF jumps THEN jump ELSE vy3
        \* lines 1147-1166
        player == PlayerRect(py4)
        new_spikes ==
            SelectSeq(spikes, LAMBDA sp : Kept(ObstacleX(sp, song_time), 80))
        spikeHit ==
            \E i \in 1..Len(new_spikes) :
                SpikeKills(player, SpikeRect(ObstacleX(new_spikes[i], song_time),
                                             new_spikes[i].height_blocks))
        platformHit ==
            \E i \in 1..Len(new_platforms) : PlatformKills(player, rect(i))
    IN  [py |-> py4, vy |-> vy4, standing |-> standing3, landing |-> landing,
         effective_ground |-> effective_ground,
         jumps |-> jumps,
         jump_req |-> IF pending /\ (jumps \/ ~inWindow) THEN None ELSE jump_req,
         platforms |-> new_platforms, spikes |-> new_spikes,
         game_over |-> (game_over \/ spikeHit \/ platformHit),
         percent |-> Percent(song_time, dur),
         integrated |-> [py |-> py1, vy |-> vy1],
         landed |-> [py |-> py2, vy |-> vy2],
         clamped |-> [py |-> py3, vy |-> vy3, floor |-> floor]]

\* The user acts in this frame: one more of the inputs of the run.
UserInput ==
    /\ now_ms \in InputTimes
    /\ inputs < MaxInputs
    /\ inputs' = inputs + 1

\* pygame.QUIT, lines 1023-1029
EventQuitAfterUpdate ==
    /\ pc = "events"
    /\ music' = "stopped"
    /\ ReturnFrom("quit", Physics.percent)
    /\ UNCHANGED <<trackVars, selVars, clock, play_calls, seen>>

EventQuit ==
    /\ pc = "events"
    /\ music' = "stopped"
    /\ ReturnFrom("quit", last_percent)
    /\ UNCHANGED <<trackVars, selVars, clock, play_calls, seen>>

\* K_ESCAPE while not game_over, lines 1032-1034: pause the audio, open the menu
EventEscape ==
    /\ pc = "events"
    /\ ~game_over
    /\ UserInput
    /\ music' = IF music = "playing" THEN "paused" ELSE music
    /\ pc' = "paused"
    /\ UNCHANGED <<trackVars, selVars, levelVars, env_t, amp, clock,
                   play_calls, clockVars, playerVars, jump_req, result, histVars>>

\* pause_menu returns "resume" after d ms, lines 1035-1039
PauseResume(d) ==
    /\ pc = "paused"
    /\ clock + d <= MaxTicks
    /\ clock' = clock + d
    /\ IF audio_started
         THEN /\ music_start_ms' = Some(clock' - elapsed_audio)
              /\ music' = IF music = "paused" THEN "playing" ELSE music
         ELSE UNCHANGED <<music_start_ms, music>>
    /\ pc' = "events"
    /\ after_pause' =
          Some([song_time |-> song_time, now_ms |-> now_ms, first |-> FALSE,
                menu_ms |-> IF after_pause # None /\ ~Val(after_pause).first
                              THEN Val(after_pause).menu_ms + d ELSE d])
    /\ UNCHANGED <<trackVars, selVars, levelVars, env_t, amp, play_calls,
                   level_start_ms, audio_started, now_ms, elapsed_audio,
                   song_time, py_prev, playerVars, jump_req, result, inputs,
                   seen, req_hist, fired, trace, death>>

\* pause_menu returns "exit" after d ms, lines 1040-1042
PauseExit(d) ==
    /\ pc = "paused"
    /\ clock + d <= MaxTicks
    /\ clock' = clock + d
    /\ music' = "stopped"
    /\ ReturnFrom("esc", last_percent)
    /\ UNCHANGED <<trackVars, selVars, play_calls, seen>>

RequestJump ==
    /\ jump_req' = Some(LogicTime(song_time))
    /\ req_hist' = Some([t0 |-> song_time,
                         airborne |-> (~standing \/ vy < 0),
                         over |-> game_over])

\* K_SPACE or K_UP, lines 1044-1045 (also taken when game_over)
EventJumpKey ==
    /\ pc = "events"
    /\ UserInput
    /\ RequestJump
    /\ UNCHANGED <<pc, trackVars, selVars, levelVars, env_t, amp, clock,
                   music, play_calls, clockVars, playerVars, result, seen,
                   after_pause, fired, trace, death>>

\* MOUSEBUTTONDOWN, button 1, while not game_over, lines 1055-1057
EventClick ==
    /\ pc = "events"
    /\ ~game_over
    /\ UserInput
    /\ RequestJump
    /\ UNCHANGED <<pc, trackVars, selVars, levelVars, env_t, amp, clock,
                   music, play_calls, clockVars, playerVars, result, seen,
                   after_pause, fired, trace, death>>

\* K_r (restart) or K_t (change_diff) while game_over, lines 1047-1053
EventGameOverKeyInAnyState(outcome) ==
    /\ pc = "events"
    /\ music' = "stopped"
    /\ ReturnFrom(outcome, last_percent)
    /\ UNCHANGED <<trackVars, selVars, clock, play_calls, seen>>

EventGameOverKey(outcome) ==
    /\ pc = "events"
    /\ game_over
    /\ music' = "stopped"
    /\ ReturnFrom(outcome, last_percent)
    /\ UNCHANGED <<trackVars, selVars, clock, play_calls, seen>>

FrameUpdate ==
    /\ pc = "events"
    /\ LET f == Physics IN
          /\ py' = f.py
          /\ vy' = f.vy
          /\ standing' = f.standing
          /\ jump_req' = f.jump_req
          /\ jumps_this_run' = IF f.jumps THEN jumps_this_run + 1 ELSE jumps_this_run
          /\ platforms' = f.platforms
          /\ spikes' = f.spikes
          /\ game_over' = f.game_over
          /\ last_percent' = f.percent
          /\ fired' = IF f.jumps THEN req_hist ELSE None
          /\ req_hist' = IF f.jump_req = None THEN None ELSE req_hist
          /\ trace' = Some([py |-> py, vy |-> vy, py_prev |-> py_prev,
                            game_over |-> game_over, spikes |-> spikes,
                            platforms |-> platforms, jumps |-> jumps_this_run,
                            last_percent |-> last_percent,
                            integrated |-> f.integrated, landing |-> f.landing,
                            landed |-> f.landed, clamped |-> f.clamped,
                            jumped |-> f.jumps])
          /\ death' = IF ~game_over /\ f.game_over
                        THEN Some([song_time |-> song_time, py |-> f.py,
                                   percent |-> f.percent])
                        ELSE death
    /\ env_t' = LogicTime(song_time)
    /\ amp' = Some(sample_envelope(env_times, env_vals, env_t'))
    /\ after_pause' = IF after_pause # None /\ Val(after_pause).first
                        THEN None ELSE after_pause
    /\ pc' = "loop"
    /\ UNCHANGED <<trackVars, selVars, clock, music, play_calls, clockVars,
                   result, inputs, seen>>

\* main, lines 1274-1296: quit exits; every other outcome leaves the run
MainDispatch ==
    /\ pc = "returned"
    /\ pc' = IF Val(result).outcome = "quit" THEN "exit" ELSE "picker"
    /\ UNCHANGED <<trackVars, selVars, localVars, clock, music, play_calls,
                   result, seen>>

Next ==
    \/ MainAnalyzed
    \/ \E key \in DifficultyKeys : SelectDifficulty(key)
    \/ SelectEscape
    \/ RunGameStart
    \/ AudioRaises
    \/ \E w \in FrameDurations, ended \in BOOLEAN : FrameBegin(w, ended)
    \/ EventQuit
    \/ EventEscape
    \/ \E d \in PauseMsSet : PauseResume(d)
    \/ \E d \in PauseMsSet : PauseExit(d)
    \/ EventJumpKey
    \/ EventClick
    \/ \E outcome \in {"restart", "change_diff"} : EventGameOverKey(outcome)
    \/ FrameUpdate
    \/ MainDispatch

Spec == Init /\ [][Next]_vars

(***************************************************************************)
(* The level builder on its own: every timeline of a family, every key     *)
(***************************************************************************)
BeatTimelines ==
    { [i \in 1..n |-> first + (i - 1) * gap] :
        n \in 0..MaxBeats, first \in {0, 150}, gap \in {0, 250, 400} }

InitLevel ==
    /\ pc = "select"
    /\ all_beats \in BeatTimelines
    /\ dur = 0
    /\ tempo = 0
    /\ env_times = <<>>
    /\ env_vals = <<>>
    /\ start_delay = StartDelay(tempo)
    /\ NoRun
    /\ env_t = 0

NextLevel ==
    \/ \E key \in DifficultyKeys : SelectDifficulty(key)
    \/ RunGameStart

SpecLevel == InitLevel /\ [][NextLevel]_vars

(***************************************************************************)
(* The envelope sampler on its own: every small curve, every query time    *)
(***************************************************************************)
StrictlyIncreasing(seq) ==
    \A i \in 1..(Len(seq) - 1) : seq[i] < seq[i + 1]

SeqsUpTo(S, n) == UNION { [1..m -> S] : m \in 0..n }

EnvTimes == { ts \in SeqsUpTo(0..MaxEnvTime, MaxEnvLen) : StrictlyIncreasing(ts) }
EnvVals == SeqsUpTo(0..MaxEnvVal, MaxEnvLen)
QueryTimes == (-1)..(MaxEnvTime + 1)

InitEnv ==
    /\ pc = "envelope"
    /\ all_beats = <<>>
    /\ dur = 0
    /\ tempo = 0
    /\ start_delay = 0
    /\ env_times \in EnvTimes
    /\ env_vals \in EnvVals
    /\ NoRun
    /\ env_t \in QueryTimes

\* amp = sample_envelope(env_times, env_vals, env_t)
SampleEnvelope ==
    /\ pc = "envelope"
    /\ amp' = Some(sample_envelope(env_times, env_vals, env_t))
    /\ pc' = "sampled"
    /\ UNCHANGED <<trackVars, selVars, levelVars, env_t, clock, music,
                   play_calls, clockVars, playerVars, jump_req, result, inputs,
                   histVars>>

NextEnv == SampleEnvelope

SpecEnv == InitEnv /\ [][NextEnv]_vars

(***************************************************************************)
(* Claims about the pure functions                                         *)
(***************************************************************************)
\* The placement rule of the level builder, as the specification words it.
KindOfBeat(i) ==
    IF i % 6 = 2 \/ i % 6 = 5 THEN "platform"
    ELSE IF i % 8 = 4 THEN "overhead"
    ELSE "ground"

\* The place of beat i's obstacle in the list of its kind (platforms, spikes).
RankOfBeat(i) ==
    Cardinality({j \in 0..i :
                   (KindOfBeat(j) = "platform") = (KindOfBeat(i) = "platform")})

\* C6: build_level emits exactly one obstacle per beat, at collision_time =
\* beat + lead_time, a Platform if i mod 6 is 2 or 5, otherwise an overhead
\* spike if i mod 8 = 4, otherwise a ground spike; the counts add up to the
\* number of beats and beat order is preserved within each kind.
C6_LevelFollowsRule ==
    (pc = "loop") =>
        /\ Len(spikes) + Len(platforms) = Len(jump_beats)
        /\ \A i \in 0..(Len(jump_beats) - 1) :
              LET t == jump_beats[i + 1] + JUMP_LEAD_TIME
                  r == RankOfBeat(i)
              IN  IF KindOfBeat(i) = "platform"
                    THEN r <= Len(platforms) /\ platforms[r] = [collision_time |-> t]
                    ELSE /\ r <= Len(spikes)
                         /\ spikes[r] =
                              [collision_time |-> t,
                               height_blocks |->
                                  IF KindOfBeat(i) = "overhead" THEN 1 ELSE 0]

\* A level of at least 21 beats: beat 20 (20 mod 6 = 2, 20 mod 8 = 4) is the
\* 7th platform.
C6_Witness ==
    /\ pc = "loop"
    /\ Len(jump_beats) >= 21
    /\ jump_beats[21] > jump_beats[20]
    /\ Len(platforms) >= 7
    /\ platforms[7].collision_time = jump_beats[21] + JUMP_LEAD_TIME

\* The stride of a difficulty key: 1 is every 3rd beat, 2 every 2nd, 3 every beat.
StrideOfKey(key) == 4 - key

\* C7: the selected JumpBeats are the beats at 0-based indices 0, k, 2k, ...
\* in their original order: ceil(n/k) of them, the first beat kept, a one-beat
\* timeline unchanged, an empty timeline giving the (empty) full timeline.
C7_StrideSelection ==
    (pc = "run_game") =>
        LET k == StrideOfKey(choice_key)
            n == Len(all_beats)
        IN  /\ Len(jump_beats) = (n + k - 1) \div k
            /\ \A j \in 0..(Len(jump_beats) - 1) :
                  jump_beats[j + 1] = all_beats[j * k + 1]
            /\ n >= 1 => jump_beats[1] = all_beats[1]
            /\ n <= 1 => jump_beats = all_beats

\* 10 distinct beats, every 2nd beat: 5 beats, the last one the 9th of the 10.
C7_Witness ==
    /\ pc = "run_game"
    /\ choice_key = 2
    /\ Len(all_beats) = 10
    /\ all_beats[1] < all_beats[2]
    /\ Len(jump_beats) = 5
    /\ jump_beats[5] = all_beats[9]

WellFormedEnvelope ==
    /\ Len(env_times) >= 1
    /\ Len(env_times) = Len(env_vals)

C9_MalformedGivesZero ==
    (pc = "sampled" /\ ~WellFormedEnvelope) =>
        /\ Val(amp).kind = "value"
        /\ Val(amp).num = 0

(***************************************************************************)
(* Claims about the clock and the jump buffer of run_game                  *)
(***************************************************************************)
\* The frame at hand is the first one after a pause that was resumed.
FirstFrameAfterResume ==
    /\ pc = "events"
    /\ after_pause # None
    /\ Val(after_pause).first

\* C1: the song_time of the first frame after a resume equals the song_time
\* of the frame in which the pause was requested: time spent in the pause
\* menu never advances song_time.  Stated here in the form most favourable
\* to the code: song_time may have advanced by the render-clock time that
\* passed outside the pause menu, and by nothing more.
C1_PauseFreezesSongTime ==
    FirstFrameAfterResume =>
        song_time - Val(after_pause).song_time
            <= (now_ms - Val(after_pause).now_ms) - Val(after_pause).menu_ms

\* C2: in every frame after playback was commanded (the run not paused),
\* song_time is the render-clock time elapsed since the audio-start reference.
C2_SongTimeFromAudioReference ==
    (pc = "events" /\ audio_started) => song_time = elapsed_audio

\* C3: while game_elapsed < start_delay playback has not been commanded and
\* song_time = game_elapsed - start_delay is negative; playback is commanded
\* in the first frame with game_elapsed >= start_delay, and at most once in a
\* run, whatever the frames, pauses and resumes.
C3_PlaybackStartsAtStartDelay ==
    /\ play_calls <= 1
    /\ seen # None =>
          /\ Val(seen).started <=> (Val(seen).game_elapsed >= start_delay)
          /\ Val(seen).started <=> (play_calls = 1)
    /\ pc \in {"events", "paused"} =>
          LET game_elapsed == now_ms - level_start_ms IN
          /\ audio_started <=> (game_elapsed >= start_delay)
          /\ game_elapsed < start_delay =>
                /\ music = "idle"
                /\ song_time = game_elapsed - start_delay
                /\ song_time < 0

\* The shortest stay in the pause menu.
PauseCost == CHOOSE d \in PauseMsSet : \A e \in PauseMsSet : d <= e

\* Playback was commanded in the frame whose game_elapsed is exactly
\* start_delay, and a later pause and resume did not command it again.
C3_Witness ==
    /\ pc = "events"
    /\ audio_started
    /\ after_pause # None
    /\ music = "playing"
    /\ play_calls = 1
    /\ Val(music_start_ms) > level_start_ms + start_delay + PauseCost

\* C4: a jump requested at song time t0 while airborne and not in game-over,
\* still pending in a frame at song time t1 <= t0 + 0.5 in which the player
\* is grounded, is consumed in that frame: impulse applied, request cleared,
\* jump count one more.
C4_BufferedJumpFires ==
    [][ ( /\ pc = "events" /\ pc' = "loop"
          /\ jump_req # None
          /\ req_hist # None
          /\ Val(req_hist).airborne
          /\ ~Val(req_hist).over
          /\ standing'
          /\ song_time - Val(req_hist).t0 <= JUMP_BUFFER_TIME )
        => ( /\ vy' = jump
             /\ jump_req' = None
             /\ jumps_this_run' = jumps_this_run + 1 ) ]_vars

\* A request made in the air was consumed on landing, exactly 0.5 s later.
C4_Witness ==
    /\ pc = "loop"
    /\ fired # None
    /\ Val(fired).airborne
    /\ Val(fired).t0 >= 0
    /\ song_time - Val(fired).t0 = JUMP_BUFFER_TIME
    /\ vy = jump

\* C5: a request made at song time t0 never produces a jump impulse in a
\* frame whose song time t1 has t1 - t0 > 0.5, pre-roll requests included.
C5_NoLateJump ==
    (pc = "loop" /\ fired # None) =>
        song_time - Val(fired).t0 <= JUMP_BUFFER_TIME

\* C10: run_game returns track-completed (percentage 100, the current jump
\* count) in exactly the frames where playback has been started, the device
\* reports it is not playing and the run is not in game-over.
C10_TrackCompleted ==
    seen # None =>
        LET completed == result # None /\ Val(result).outcome = "song_end" IN
        /\ completed <=>
              (Val(seen).started /\ ~Val(seen).busy /\ ~Val(seen).over)
        /\ completed =>
              /\ Val(result).percent = 100
              /\ Val(result).jumps = Val(seen).jumps

\* The track ended in a run that had jumped: track-completed with that count.
C10_Witness ==
    /\ pc = "returned"
    /\ Val(result).outcome = "song_end"
    /\ Val(result).jumps >= 1
    /\ Val(seen).started
    /\ ~Val(seen).busy

(***************************************************************************)
(* Game-over, outcomes and the frame update                                *)
(***************************************************************************)
\* s is an order-preserving subsequence of t
RECURSIVE IsSubseq(_, _)
IsSubseq(s, t) ==
    IF s = <<>> THEN TRUE
    ELSE IF t = <<>> THEN FALSE
    ELSE IF Head(s) = Head(t) THEN IsSubseq(Tail(s), Tail(t))
    ELSE IsSubseq(s, Tail(t))

InRun == pc \in {"loop", "events", "paused"}

\* C11: game-over is absorbing within a run.  From a state of the run in
\* game-over every step either returns from the run or keeps game_over set,
\* leaves the player's vertical position as it is, keeps the start reference
\* of the level and only removes obstacles from the level; a frame that begins
\* in game-over still takes its song_time from the running clock.
C11_GameOverAbsorbing ==
    [][ (InRun /\ game_over) =>
          \/ pc' = "returned"
          \/ /\ game_over'
             /\ py' = py
             /\ level_start_ms' = level_start_ms
             /\ IsSubseq(spikes', spikes)
             /\ IsSubseq(platforms', platforms)
             /\ ((pc = "loop" /\ pc' = "events") =>
                    song_time' = (clock - level_start_ms) - start_delay) ]_vars

\* The player died in mid-air with a non-zero velocity, and 400 ms of song
\* time later the run is still in game-over at the height of the death.
C11_Witness ==
    /\ pc = "loop"
    /\ game_over
    /\ death # None
    /\ song_time >= Val(death).song_time + 400
    /\ py = Val(death).py
    /\ py < (ground_y - player_h) * 100
    /\ vy # 0

\* a frame update of the run has completed (each one assigns amp)
FrameCompleted == amp # None

\* p is clamp(t / d, 0, 1) * 100 truncated to an integer, 0 when d <= 0
IsCompletion(p, t, d) ==
    IF d <= 0 THEN p = 0
    ELSE LET c == IF t < 0 THEN 0 ELSE IF t > d THEN d ELSE t
         IN  p * d <= c * 100 /\ c * 100 < (p + 1) * d

PercentOfFrame ==
    /\ (pc = "loop" /\ FrameCompleted) =>
          /\ IsCompletion(last_percent, song_time, dur)
          /\ last_percent \in 0..100
          /\ (song_time < 0 => last_percent = 0)
    /\ (InRun /\ ~FrameCompleted) => last_percent = 0

\* C12: after every frame update the percentage is the truncated clamp of
\* song_time / dur times 100, lies in 0..100 and is 0 during pre-roll; it is 0
\* before the first frame completes; only a frame update changes it and never
\* downwards; every outcome other than song_end returns the value it has.
C12_CompletionPercent ==
    /\ []PercentOfFrame
    /\ [][ InRun =>
             /\ ((pc' = "returned" /\ Val(result').outcome # "song_end") =>
                    Val(result').percent = last_percent)
             /\ ((pc' # "returned" /\ last_percent' # last_percent) =>
                    (pc = "events" /\ pc' = "loop" /\ last_percent' > last_percent))
          ]_vars

\* Exit from the pause menu, in a frame after the audio started, returned a
\* percentage strictly inside 0..100.
C12_Witness ==
    /\ pc = "returned"
    /\ Val(result).outcome = "esc"
    /\ Val(result).percent \in 1..99
    /\ Val(seen).started

\* C13: when the analyzer yields an empty BeatTimeline a run is still started:
\* once main has looked at the analysis it is choosing the difficulty, inside
\* the run, or holds what the run returned; and that run never reaches
\* game-over.
C13_EmptyTimelineStillRuns ==
    (all_beats = <<>> /\ pc # "main") =>
        /\ pc \in {"select", "run_game", "loop", "events", "paused"} \/ result # None
        /\ ~game_over

Outcomes == {"quit", "esc", "restart", "change_diff", "song_end"}

\* C14: when loading the track or starting playback fails, run_game returns
\* to its caller an outcome that is none of quit, esc, restart, change_diff
\* and song_end.
C14_AudioFailureIsAnOutcome ==
    pc = "raised" => (result # None /\ Val(result).outcome \notin Outcomes)

\* C15: a window-close event, or Exit in the pause menu, ends the run in the
\* tick that receives it.  A step that returns quit or esc is taken from the
\* event loop or the pause menu of a tick whose frame update has not run; it
\* leaves the audio stopped and returns the percentage and the jump count the
\* run held before the step.
C15_CancellationReturnsAtOnce ==
    [][ (pc # "returned" /\ pc' = "returned"
            /\ Val(result').outcome \in {"quit", "esc"}) =>
          /\ pc \in {"events", "paused"}
          /\ trace = None
          /\ music' = "stopped"
          /\ Val(result').percent = last_percent
          /\ Val(result').jumps = jumps_this_run ]_vars

\* A window-close event ended a run that had jumped and was part-way through
\* the track; the audio is stopped.
C15_Witness ==
    /\ pc = "returned"
    /\ Val(result).outcome = "quit"
    /\ Val(result).jumps >= 1
    /\ Val(result).percent \in 1..99
    /\ music = "stopped"

\* C16: the outcome a run returns depends on its state.  restart and
\* change_diff are returned only in game-over, esc and song_end only outside
\* game-over, quit in either; ESC does not open the pause menu in game-over;
\* every return is one of the five outcomes with a percentage in 0..100 and a
\* jump count.
C16_OutcomeDependsOnState ==
    [][ /\ (pc # "returned" /\ pc' = "returned") =>
             LET r == Val(result') IN
               /\ r.outcome \in Outcomes
               /\ r.outcome \in {"restart", "change_diff"} => game_over
               /\ r.outcome \in {"esc", "song_end"} => ~game_over
               /\ r.percent \in 0..100
               /\ r.jumps \in Nat
        /\ pc' = "paused" => ~game_over ]_vars

\* A run in game-over, seen as such by its last frame, returned restart.
C16_Witness ==
    /\ pc = "returned"
    /\ Val(result).outcome = "restart"
    /\ Val(seen).over
    /\ Val(result).percent > 0

\* The frame update that has just completed, and its intermediate values.
AfterFrame == pc = "loop" /\ trace # None

\* Top edge and horizontal extent, in px, of platform pf in the frame at song
\* time now.
PlatformTop == ground_y - 60
PlatformLeft(pf, now) == TruncDiv(ObstacleX(pf, now), 1000)
PlatformRight(pf, now) == PlatformLeft(pf, now) + 120

\* pf is in the player's column (px .. px + 50) in the frame at song time now
OverColumn(pf, now) == px + 50 > PlatformLeft(pf, now) /\ px < PlatformRight(pf, now)

\* the platform top lies between the player's bottom before and after the
\* integration of the frame
CrossesTop(tr) ==
    /\ tr.py_prev + player_h * 100 <= PlatformTop * 100
    /\ PlatformTop * 100 <= tr.integrated.py + player_h * 100

\* C17: in a frame whose integration leaves a velocity >= 0 and the player's
\* bottom crossing the top of a platform in its column, the landing step puts
\* the bottom on that top with velocity 0, the player is grounded and ends the
\* frame on the top (with velocity 0, or the jump velocity if a buffered jump
\* fires from the platform), so no platform contains it; with a negative
\* velocity no landing happens.
C17_PlatformLanding ==
    AfterFrame =>
      LET tr == Val(trace)
          caught == \E i \in 1..Len(platforms) :
                       CrossesTop(tr) /\ OverColumn(platforms[i], song_time)
      IN  /\ (tr.integrated.vy >= 0 /\ caught) =>
                /\ tr.landing
                /\ tr.landed.py + player_h * 100 = PlatformTop * 100
                /\ tr.landed.vy = 0
                /\ standing
                /\ py + player_h * 100 = PlatformTop * 100
                /\ vy = IF tr.jumped THEN jump ELSE 0
          /\ tr.integrated.vy < 0 => ~tr.landing

\* The player came down from a jump, passed the top of a platform in this
\* frame and was put onto it, alive.
C17_Witness ==
    /\ AfterFrame
    /\ Val(trace).landing
    /\ Val(trace).integrated.vy > 0
    /\ Val(trace).integrated.py + player_h * 100 > PlatformTop * 100
    /\ Val(trace).py_prev + player_h * 100 < PlatformTop * 100
    /\ py + player_h * 100 = PlatformTop * 100
    /\ ~game_over

\* C18: after every frame update, game-over included, the player's bottom is
\* at or above the baseline ground; when the integration put it at or below
\* the baseline and no platform caught the player, the clamp step put it on
\* the baseline with velocity 0 and the player is grounded there (a buffered
\* jump may then fire from the baseline in the same frame).
C18_NeverBelowBaseline ==
    AfterFrame =>
      LET tr == Val(trace) IN
        /\ py + player_h * 100 <= ground_y * 100
        /\ (tr.integrated.py + player_h * 100 >= ground_y * 100 /\ ~tr.landing) =>
              /\ tr.clamped.floor
              /\ tr.clamped.py + player_h * 100 = ground_y * 100
              /\ tr.clamped.vy = 0
              /\ standing
              /\ py + player_h * 100 = ground_y * 100
              /\ vy = IF tr.jumped THEN jump ELSE 0

\* The player fell from a jump through the baseline in this frame and was put
\* back onto it.
C18_Witness ==
    /\ AfterFrame
    /\ ~Val(trace).landing
    /\ Val(trace).integrated.vy > gravity
    /\ Val(trace).integrated.py + player_h * 100 > ground_y * 100
    /\ Val(trace).py_prev + player_h * 100 < ground_y * 100
    /\ py + player_h * 100 = ground_y * 100
    /\ vy = 0

Elements(seq) == { seq[i] : i \in 1..Len(seq) }

\* right edge, in px, of the rectangle of width `width` of obstacle ob in the
\* frame at song time now
RightEdge(ob, now, width) == TruncDiv(ObstacleX(ob, now), 1000) + width

LevelIsRemainder ==
    InRun =>
      /\ IsSubseq(spikes, build_level(jump_beats).spikes)
      /\ IsSubseq(platforms, build_level(jump_beats).platforms)

\* C19: within a run the level changes only by removal.  The remaining spikes
\* and platforms are order-preserving subsequences of the level built at run
\* start, every step of the run leaves subsequences of what it found, only a
\* frame update removes, and it removes only obstacles whose right edge is left
\* of x = 0 in that frame.
C19_LevelOnlyShrinks ==
    /\ []LevelIsRemainder
    /\ [][ (InRun /\ pc' \in {"loop", "events", "paused"}) =>
             /\ IsSubseq(spikes', spikes)
             /\ IsSubseq(platforms', platforms)
             /\ (spikes' # spikes \/ platforms' # platforms) =>
                    (pc = "events" /\ pc' = "loop")
             /\ \A sp \in Elements(spikes) \ Elements(spikes') :
                    RightEdge(sp, song_time, 45) < 0
             /\ \A pf \in Elements(platforms) \ Elements(platforms') :
                    RightEdge(pf, song_time, 120) < 0 ]_vars

\* This frame removed a spike that the living player has passed.
C19_Witness ==
    /\ AfterFrame
    /\ ~game_over
    /\ Len(spikes) < Len(Val(trace).spikes)
    /\ RightEdge(Val(trace).spikes[1], song_time, 45) < 0

\* Boxes in px: the player's bounding box at height y (1/100 px), the hit
\* box of spike sp and the box of platform pf in the frame at song time now.
Box(left, top, right, bottom) ==
    [left |-> left, top |-> top, right |-> right, bottom |-> bottom]

PlayerBox(y) == Box(px, TruncDiv(y, 100), px + 50, TruncDiv(y, 100) + player_h)

SpikeBox(sp, now) ==
    LET left == TruncDiv(ObstacleX(sp, now), 1000)
        bottom == IF sp.height_blocks = 0 THEN ground_y ELSE ground_y - 60
    IN  Box(left, bottom - 50, left + 45, bottom)

PlatformBox(pf, now) ==
    Box(PlatformLeft(pf, now), PlatformTop, PlatformRight(pf, now), ground_y)

Overlap(a, b) ==
    /\ a.left < b.right
    /\ b.left < a.right
    /\ a.top < b.bottom
    /\ b.top < a.bottom

SpikeOverlap ==
    \E i \in 1..Len(spikes) : Overlap(PlayerBox(py), SpikeBox(spikes[i], song_time))

PlatformOverlapBelowTop ==
    \E i \in 1..Len(platforms) :
        /\ Overlap(PlayerBox(py), PlatformBox(platforms[i], song_time))
        /\ PlayerBox(py).bottom > PlatformTop + 2

\* C20: a run that is not in game-over enters it in a step if and only if
\* the step is a frame update after which the player's bounding box overlaps
\* the hit box of a spike still in the level, or overlaps a platform with the
\* player's bottom more than 2 px below the platform's top.
C20_GameOverIffCollision ==
    [][ (InRun /\ ~game_over /\ pc' \in {"loop", "events", "paused"}) =>
          (game_over' <=>
              /\ pc = "events"
              /\ pc' = "loop"
              /\ (SpikeOverlap \/ PlatformOverlapBelowTop)') ]_vars

\* The frame of death of a player that ran or jumped into a platform without
\* touching a spike.
C20_Witness ==
    /\ AfterFrame
    /\ game_over
    /\ ~Val(trace).game_over
    /\ PlatformOverlapBelowTop
    /\ ~SpikeOverlap

\* C21: after a run has entered game-over the percentage it holds, and so
\* the percentage it returns on restart, change_diff or quit, stays the one
\* computed in the frame of death.
C21_PercentFrozenAfterDeath ==
    (InRun /\ game_over /\ death # None) => last_percent = Val(death).percent

\* the player's bottom, before the jump step of the frame, rests on the
\* baseline or on the top of a platform in its column
RestsOnGround(tr) ==
    /\ tr.clamped.vy = 0
    /\ \/ tr.clamped.py + player_h * 100 = ground_y * 100
       \/ /\ tr.clamped.py + player_h * 100 = PlatformTop * 100
          /\ \E i \in 1..Len(platforms) : OverColumn(platforms[i], song_time)

JumpInFrame ==
    AfterFrame =>
      LET tr == Val(trace) IN
        /\ tr.jumped =>
              /\ ~tr.game_over
              /\ RestsOnGround(tr)
              /\ standing
              /\ vy = jump
              /\ py = tr.clamped.py
              /\ jumps_this_run = tr.jumps + 1
              /\ jump_req = None
        /\ ~tr.jumped => jumps_this_run = tr.jumps
        /\ (vy < 0 /\ ~tr.jumped) =>
              /\ tr.vy < 0
              /\ vy = IF tr.game_over THEN tr.vy ELSE tr.vy + gravity

\* C22: a jump impulse is applied only in a frame update that found the run
\* outside game-over and the player resting on the baseline or on a platform
\* top; that frame adds exactly one to the jump count and consumes the
\* request; an upward velocity in any other frame is what is left of an
\* earlier impulse; no other step changes the jump count, and no step changes
\* it in game-over.
C22_JumpOnlyWhenGrounded ==
    /\ []JumpInFrame
    /\ [][ (InRun /\ pc' \in {"loop", "events", "paused"}) =>
             /\ (jumps_this_run' # jumps_this_run) =>
                    (pc = "events" /\ pc' = "loop" /\ ~game_over)
             /\ game_over => jumps_this_run' = jumps_this_run ]_vars

\* The second jump of the run is fired from the top of a platform.
C22_Witness ==
    /\ AfterFrame
    /\ Val(trace).jumped
    /\ jumps_this_run = 2
    /\ py + player_h * 100 = PlatformTop * 100
    /\ vy = jump

=============================================================================
